---- MODULE Spec2Model ----
(***************************************************************************)
(* smol-parser: the JSON lexer (Lexer) and the recursive-descent parser    *)
(* (Parser) of src/pkg/token/token.go, lines 293-651.                      *)
(*                                                                         *)
(* Bytes and runes are integers.  The input is a sequence of bytes; the    *)
(* Go index input[i] (0-based) is inp[i+1] here.  The lexer is a record    *)
(* [pos, ch]; its methods are operators that take the input and the lexer  *)
(* and give the lexer after the call.  The parser is a state machine with  *)
(* an explicit call stack: one action per stretch of parser code between   *)
(* two calls of parseValue.                                                *)
(***************************************************************************)
EXTENDS Integers, Sequences, FiniteSets, TLC

(***************************************************************************)
(* Byte values of the character literals of the source.                    *)
(***************************************************************************)
ChNUL == 0
ChBS == 8
ChTab == 9
ChLF == 10
ChFF == 12
ChCR == 13
ChSpace == 32
ChQuote == 34
ChPlus == 43
ChComma == 44
ChMinus == 45
ChDot == 46
ChSlash == 47
Ch0 == 48
Ch9 == 57
ChColon == 58
ChUpperE == 69
ChLBrack == 91
ChBackslash == 92
ChRBrack == 93
Chb == 98
Che == 101
Chf == 102
Chn == 110
Chr == 114
Cht == 116
Chu == 117
ChLBrace == 123
ChRBrace == 125

\* The identifiers NextToken accepts, as bytes.
KwTrue == <<116, 114, 117, 101>>
KwFalse == <<102, 97, 108, 115, 101>>
KwNull == <<110, 117, 108, 108>>

\* unicode.IsDigit(rune(b)) for a byte b: in Latin-1 only '0'..'9' are Nd.
IsDigit(c) == c \in Ch0..Ch9

\* unicode.IsLetter(rune(b)) for a byte b: the letters of Latin-1.
IsLetter(c) ==
    c \in (65..90) \cup (97..122) \cup {170, 181, 186}
          \cup (192..214) \cup (216..246) \cup (248..255)

IsSpace(c) == c \in {ChSpace, ChTab, ChLF, ChCR}

(***************************************************************************)
(* Token types and errors.  The source builds its errors with fmt.Errorf;  *)
(* an error is modelled by the constant part of its message.               *)
(***************************************************************************)
TokenEOF == "TokenEOF"
TokenLeftBrace == "TokenLeftBrace"
TokenRightBrace == "TokenRightBrace"
TokenLeftBracket == "TokenLeftBracket"
TokenRightBracket == "TokenRightBracket"
TokenColon == "TokenColon"
TokenComma == "TokenComma"
TokenString == "TokenString"
TokenNumber == "TokenNumber"
TokenTrue == "TokenTrue"
TokenFalse == "TokenFalse"
TokenNull == "TokenNull"

NoErr == "nil"
ErrUnicodeEscape == "invalid unicode escape"
ErrEscape == "invalid escape sequence"
ErrUnterminated == "unterminated string"
ErrIdentifier == "unexpected identifier"
ErrCharacter == "unexpected character"
ErrToken == "unexpected token"
ErrStringKey == "expected string key"
ErrColon == "expected colon after key"
ErrCommaBrace == "expected comma or closing brace"
ErrCommaBracket == "expected comma or closing bracket"
ErrFloatSyntax == "strconv.ParseFloat: invalid syntax"
ErrFloatRange == "strconv.ParseFloat: value out of range"

\* Token{Type, Value, Pos}
Token(type, value, pos) == [Type |-> type, Value |-> value, Pos |-> pos]

(***************************************************************************)
(* Lexer.  A definition with parameters is used where the source keeps a   *)
(* local variable that is read several times.                              *)
(***************************************************************************)
readChar(inp, l) ==
    [pos |-> l.pos + 1,
     ch |-> IF l.pos >= Len(inp) THEN ChNUL ELSE inp[l.pos + 1]]

NewLexer(inp) == readChar(inp, [pos |-> 0, ch |-> ChNUL])

RECURSIVE skipWhitespace(_, _)
skipWhitespace(inp, l) ==
    IF IsSpace(l.ch) THEN skipWhitespace(inp, readChar(inp, l)) ELSE l

\* The Go slice input[from : to]; Go panics unless 0 <= from <= to <= len.
Slice(inp, from, to) == SubSeq(inp, from + 1, to)

\* The value of one hexadecimal digit, -1 for any other byte.
HexVal(c) ==
    IF c \in 48..57 THEN c - 48
    ELSE IF c \in 97..102 THEN c - 87
    ELSE IF c \in 65..70 THEN c - 55
    ELSE -1

RECURSIVE HexNum(_)
HexNum(s) ==
    IF s = << >> THEN 0 ELSE 16 * HexNum(SubSeq(s, 1, Len(s) - 1)) + HexVal(s[Len(s)])

IsHexString(s) == s # << >> /\ \A i \in 1..Len(s) : HexVal(s[i]) >= 0

\* strconv.ParseInt(s, 16, 32) for the four bytes readString hands it: an
\* optional sign, then one or more hexadecimal digits and nothing else.
ParseIntHex(s) ==
    IF s # << >> /\ s[1] = ChPlus
    THEN [ok |-> IsHexString(Tail(s)), val |-> HexNum(Tail(s))]
    ELSE IF s # << >> /\ s[1] = ChMinus
    THEN [ok |-> IsHexString(Tail(s)), val |-> 0 - HexNum(Tail(s))]
    ELSE [ok |-> IsHexString(s), val |-> HexNum(s)]

\* string([]rune{r}): a rune that is no Unicode scalar value (negative, a
\* surrogate, above U+10FFFF) is encoded as U+FFFD.
ValidRune(r) ==
    IF r < 0 \/ r \in 55296..57343 \/ r > 1114111 THEN 65533 ELSE r

\* string(result): the text of a string token, as its code points.
RuneString(runes) == [i \in 1..Len(runes) |-> ValidRune(runes[i])]

\* The result of a backslash escape other than \u; -1 when there is none.
EscapeRune(c) ==
    IF c \in {ChQuote, ChBackslash, ChSlash} THEN c
    ELSE IF c = Chb THEN ChBS
    ELSE IF c = Chf THEN ChFF
    ELSE IF c = Chn THEN ChLF
    ELSE IF c = Chr THEN ChCR
    ELSE IF c = Cht THEN ChTab
    ELSE -1

\* The loop of case 'u': i bytes are in hex; the current byte is appended and
\* readChar called, whatever the byte is, until there are four.
RECURSIVE readHex(_, _, _, _)
readHex(inp, l, hex, i) ==
    IF i >= 4 THEN [l |-> l, hex |-> hex]
    ELSE readHex(inp, readChar(inp, l), Append(hex, l.ch), i + 1)

RECURSIVE readStringLoop(_, _, _)
RECURSIVE readEscape(_, _, _)
RECURSIVE readUnicode(_, _, _)

\* case 'u' after its loop: h is the lexer and the four bytes read.
readUnicode(inp, h, result) ==
    IF ParseIntHex(h.hex).ok
    THEN readStringLoop(inp, h.l, Append(result, ParseIntHex(h.hex).val))
    ELSE [l |-> h.l, result |-> result, err |-> ErrUnicodeEscape]

\* The switch of readString: l.ch is the byte after the backslash.
readEscape(inp, l, result) ==
    IF l.ch = Chu THEN readUnicode(inp, readHex(inp, readChar(inp, l), << >>, 0), result)
    ELSE IF EscapeRune(l.ch) >= 0
    THEN readStringLoop(inp, readChar(inp, l), Append(result, EscapeRune(l.ch)))
    ELSE [l |-> l, result |-> result, err |-> ErrEscape]

\* The for loop of readString.
readStringLoop(inp, l, result) ==
    IF l.ch = ChQuote \/ l.ch = ChNUL THEN [l |-> l, result |-> result, err |-> NoErr]
    ELSE IF l.ch = ChBackslash THEN readEscape(inp, readChar(inp, l), result)
    ELSE readStringLoop(inp, readChar(inp, l), Append(result, l.ch))

\* readString after its loop.
readStringEnd(inp, r) ==
    IF r.err # NoErr THEN [l |-> r.l, str |-> << >>, err |-> r.err]
    ELSE IF r.l.ch # ChQuote THEN [l |-> r.l, str |-> << >>, err |-> ErrUnterminated]
    ELSE [l |-> readChar(inp, r.l), str |-> RuneString(r.result), err |-> NoErr]

readString(inp, l) == readStringEnd(inp, readStringLoop(inp, readChar(inp, l), << >>))

RECURSIVE skipDigits(_, _)
skipDigits(inp, l) ==
    IF IsDigit(l.ch) THEN skipDigits(inp, readChar(inp, l)) ELSE l

\* The parts of readNumber, each from the lexer the part before it left.
numberSign(inp, l) == IF l.ch = ChMinus THEN readChar(inp, l) ELSE l
numberInt(inp, l) == IF l.ch = Ch0 THEN readChar(inp, l) ELSE skipDigits(inp, l)
numberFrac(inp, l) == IF l.ch = ChDot THEN skipDigits(inp, readChar(inp, l)) ELSE l
numberExpSign(inp, l) == IF l.ch \in {ChPlus, ChMinus} THEN readChar(inp, l) ELSE l
numberExp(inp, l) ==
    IF l.ch \in {Che, ChUpperE}
    THEN skipDigits(inp, numberExpSign(inp, readChar(inp, l)))
    ELSE l

\* A variant of lexeme that takes the slice up to the cursor, input[start :
\* l.pos]: the variant CursorSafe has to tell from it.
lexemeToCursor(inp, start, l) ==
    [l |-> l,
     str |-> Slice(inp, start, IF l.pos <= Len(inp) THEN l.pos ELSE Len(inp)),
     from |-> start,
     to |-> l.pos]

\* The lexer after the call and input[start : l.pos-1], with the bounds of
\* the slice.
lexeme(inp, start, l) ==
    [l |-> l, str |-> Slice(inp, start, l.pos - 1), from |-> start, to |-> l.pos - 1]

readNumber(inp, l) ==
    lexeme(inp, l.pos - 1, numberExp(inp, numberFrac(inp, numberInt(inp, numberSign(inp, l)))))

RECURSIVE skipLetters(_, _)
skipLetters(inp, l) ==
    IF IsLetter(l.ch) THEN skipLetters(inp, readChar(inp, l)) ELSE l

readIdentifier(inp, l) == lexeme(inp, l.pos - 1, skipLetters(inp, l))

\* What NextToken returns: the lexer after the call, the token, the error.
Lexed(l, type, value, pos, err) == [l |-> l, tok |-> Token(type, value, pos), err |-> err]

\* The token type of a single-character structural token, "" for another byte.
Structural(c) ==
    IF c = ChLBrace THEN TokenLeftBrace
    ELSE IF c = ChRBrace THEN TokenRightBrace
    ELSE IF c = ChLBrack THEN TokenLeftBracket
    ELSE IF c = ChRBrack THEN TokenRightBracket
    ELSE IF c = ChColon THEN TokenColon
    ELSE IF c = ChComma THEN TokenComma
    ELSE ""

\* case '"' of NextToken, r what readString gave.  With an error the token
\* returned keeps the zero Type (TokenEOF) and its Pos.
stringToken(r, pos) ==
    IF r.err # NoErr THEN Lexed(r.l, TokenEOF, << >>, pos, r.err)
    ELSE Lexed(r.l, TokenString, r.str, pos, NoErr)

\* The switch on the identifier, r what readIdentifier gave.
identifierToken(r, pos) ==
    IF r.str = KwTrue THEN Lexed(r.l, TokenTrue, << >>, pos, NoErr)
    ELSE IF r.str = KwFalse THEN Lexed(r.l, TokenFalse, << >>, pos, NoErr)
    ELSE IF r.str = KwNull THEN Lexed(r.l, TokenNull, << >>, pos, NoErr)
    ELSE Lexed(r.l, TokenEOF, << >>, pos, ErrIdentifier)

numberToken(r, pos) == Lexed(r.l, TokenNumber, r.str, pos, NoErr)

\* NextToken after skipWhitespace: the switch on l.ch.
scanToken(inp, l) ==
    IF l.ch = ChNUL THEN Lexed(l, TokenEOF, << >>, l.pos - 1, NoErr)
    ELSE IF Structural(l.ch) # ""
    THEN Lexed(readChar(inp, l), Structural(l.ch), << >>, l.pos - 1, NoErr)
    ELSE IF l.ch = ChQuote THEN stringToken(readString(inp, l), l.pos - 1)
    ELSE IF l.ch = ChMinus \/ IsDigit(l.ch) THEN numberToken(readNumber(inp, l), l.pos - 1)
    ELSE IF IsLetter(l.ch) THEN identifierToken(readIdentifier(inp, l), l.pos - 1)
    ELSE Lexed(l, TokenEOF, << >>, l.pos - 1, ErrCharacter)

NextToken(inp, l) == scanToken(inp, skipWhitespace(inp, l))

(***************************************************************************)
(* strconv.ParseFloat(s, 64), the conversion parseValue applies to a       *)
(* number lexeme.  Syntax (readFloat, base 10): an optional sign, digits   *)
(* with at most one '.', at least one digit among them, then optionally    *)
(* 'e' or 'E', an optional sign and at least one digit; the whole string   *)
(* must be consumed.  The value is kept as a normalised decimal            *)
(* (-1)^neg * 0.d1d2...dn * 10^exp without leading or trailing zero digits *)
(* (no digits at all for zero), which identifies exactly the lexemes that  *)
(* denote the same real number; float64 rounding of mantissas longer than  *)
(* 15 digits is not modelled.  A magnitude at or above the float64         *)
(* overflow threshold is ErrRange; one below half the smallest denormal is *)
(* zero.                                                                   *)
(***************************************************************************)
RECURSIVE digitRun(_, _)
digitRun(s, i) == IF i <= Len(s) /\ IsDigit(s[i]) THEN digitRun(s, i + 1) ELSE i

RECURSIVE stripLeadingZeros(_)
stripLeadingZeros(d) ==
    IF d # << >> /\ d[1] = 0 THEN stripLeadingZeros(Tail(d)) ELSE d

RECURSIVE stripTrailingZeros(_)
stripTrailingZeros(d) ==
    IF d # << >> /\ d[Len(d)] = 0 THEN stripTrailingZeros(SubSeq(d, 1, Len(d) - 1)) ELSE d

\* readFloat's exponent accumulation: if e < 10000 { e = e*10 + digit }.
RECURSIVE expValue(_, _)
expValue(d, e) ==
    IF d = << >> THEN e
    ELSE expValue(Tail(d), IF e < 10000 THEN e * 10 + (d[1] - Ch0) ELSE e)

\* 0.d1d2... < 0.t1t2... for digit sequences without trailing zeros.
RECURSIVE fracLess(_, _)
fracLess(d, t) ==
    IF t = << >> THEN FALSE
    ELSE IF d = << >> THEN TRUE
    ELSE IF d[1] # t[1] THEN d[1] < t[1]
    ELSE fracLess(Tail(d), Tail(t))

\* (2^1024 - 2^970) = 0.1797693134862315807937...e309: from here on ParseFloat overflows.
FloatOverflowDigits == <<1, 7, 9, 7, 6, 9, 3, 1, 3, 4, 8, 6, 2, 3, 1, 5, 8, 0, 7, 9, 3, 7>>
\* 2^-1075 = 0.24703282292062327...e-323: up to here ParseFloat gives zero.
FloatUnderflowDigits == <<2, 4, 7, 0, 3, 2, 8, 2, 2, 9, 2, 0, 6, 2, 3, 2, 7>>

IsSign(s, i) == i <= Len(s) /\ s[i] \in {ChPlus, ChMinus}
IsMinus(s, i) == i <= Len(s) /\ s[i] = ChMinus
IsDot(s, i) == i <= Len(s) /\ s[i] = ChDot
IsExpMark(s, i) == i <= Len(s) /\ s[i] \in {Che, ChUpperE}

DigitValues(d) == [i \in 1..Len(d) |-> d[i] - Ch0]

\* The float64 for the sign neg, the significant digits and the exponent exp
\* of 0.digits * 10^exp.
floatRound(neg, digits, exp) ==
    IF digits = << >> THEN [err |-> NoErr, val |-> [neg |-> neg, digits |-> << >>, exp |-> 0]]
    ELSE IF exp > 309 \/ (exp = 309 /\ ~fracLess(digits, FloatOverflowDigits))
    THEN [err |-> ErrFloatRange, val |-> [neg |-> neg, digits |-> << >>, exp |-> 0]]
    ELSE IF exp < -323 \/ (exp = -323 /\ ~fracLess(FloatUnderflowDigits, digits))
    THEN [err |-> NoErr, val |-> [neg |-> neg, digits |-> << >>, exp |-> 0]]
    ELSE [err |-> NoErr, val |-> [neg |-> neg, digits |-> digits, exp |-> exp]]

\* all: the digits of the mantissa, nInt of them before the point; lead: all
\* without its leading zeros; e: the exponent written.
floatValue(neg, all, lead, nInt, e) ==
    floatRound(neg, stripTrailingZeros(lead), e + nInt - (Len(all) - Len(lead)))

\* The mantissa is s[i1..i2-1] and, after a point at i2, s[i2+1..i3-1]; the
\* exponent digits are s[i5..i6-1]; the scan ends before s[end].
floatParts(s, i1, i2, i3, i5, i6, end) ==
    IF (i2 - i1) + (IF i3 > i2 THEN i3 - i2 - 1 ELSE 0) = 0 \/ (i5 > 0 /\ i6 = i5)
       \/ end # Len(s) + 1
    THEN [err |-> ErrFloatSyntax, val |-> [neg |-> FALSE, digits |-> << >>, exp |-> 0]]
    ELSE floatValue(i1 = 2 /\ s[1] = ChMinus,
                    DigitValues(SubSeq(s, i1, i2 - 1) \o SubSeq(s, i2 + 1, i3 - 1)),
                    stripLeadingZeros(DigitValues(SubSeq(s, i1, i2 - 1)
                                                  \o SubSeq(s, i2 + 1, i3 - 1))),
                    i2 - i1,
                    IF i5 = 0 THEN 0
                    ELSE IF IsMinus(s, i5 - 1) THEN 0 - expValue(SubSeq(s, i5, i6 - 1), 0)
                    ELSE expValue(SubSeq(s, i5, i6 - 1), 0))

floatExpDigits(s, i1, i2, i3, i5) ==
    floatParts(s, i1, i2, i3, i5, digitRun(s, i5), digitRun(s, i5))

floatExp(s, i1, i2, i3) ==
    IF IsExpMark(s, i3)
    THEN floatExpDigits(s, i1, i2, i3, IF IsSign(s, i3 + 1) THEN i3 + 2 ELSE i3 + 1)
    ELSE floatParts(s, i1, i2, i3, 0, 0, i3)

floatFrac(s, i1, i2) ==
    floatExp(s, i1, i2, IF IsDot(s, i2) THEN digitRun(s, i2 + 1) ELSE i2)

floatInt(s, i1) == floatFrac(s, i1, digitRun(s, i1))

ParseFloat(s) == floatInt(s, IF IsSign(s, 1) THEN 2 ELSE 1)

(***************************************************************************)
(* Values: the interface{} tree Parse returns.                             *)
(***************************************************************************)
Nil == [t |-> "nil"]
\* the nil map and the nil slice parseObject and parseArray return with an error
NilMap == [t |-> "nil map"]
NilSlice == [t |-> "nil slice"]
VBool(b) == [t |-> "bool", b |-> b]
VString(s) == [t |-> "string", s |-> s]
VNumber(n) == [t |-> "float64", n |-> n]
VArray(a) == [t |-> "[]interface{}", a |-> a]
VObject(o) == [t |-> "map[string]interface{}", o |-> o]

\* A map store that keeps the value a key already has: the variant of MapSet
\* that LastWriteWins has to tell from it.
MapSetKeepFirst(obj, key, val) == obj @@ (key :> val)

\* obj[key] = val on a Go map
MapSet(obj, key, val) == (key :> val) @@ obj

\* a (value, error) pair
Ret(val, err) == [val |-> val, err |-> err]

(***************************************************************************)
(* State                                                                   *)
(***************************************************************************)
VARIABLES
    doc,        \* the document the caller holds
    input,      \* Lexer.input: the text handed to Parse (doc, or a variant of it)
    lexer,      \* Lexer.pos and Lexer.ch
    curToken,   \* Parser.curToken
    stack,      \* the parseObject and parseArray calls in progress, outermost first
    pc,         \* where the control is
    ret,        \* the (value, error) the call that just returned gave
    result,     \* what Parse returned
    lexLog,     \* history: the error of every NextToken call so far, in order
    returned,   \* history: the locals of the parseObject or parseArray call that returned last
    run,        \* which call of Parse this is
    first       \* what the caller kept of the first call: its input and result

vars == <<doc, input, lexer, curToken, stack, pc, ret, result, lexLog, returned, run, first>>

\* The depth at which the model stops following the recursion of parseValue.
MaxDepth == 6

\* The parser together with its lexer and the history of NextToken calls.
Parser == [lex |-> lexer, cur |-> curToken, log |-> lexLog]

\* Parser.advance after its call of NextToken, which gave r: the token is
\* kept only when there is no error.
advanced(p, r) ==
    [lex |-> r.l,
     cur |-> IF r.err = NoErr THEN r.tok ELSE p.cur,
     log |-> Append(p.log, r.err)]

\* Parser.advance.  The error is returned; parseValue, parseObject and
\* parseArray drop it.
advance(p) == advanced(p, NextToken(input, p.lex))

\* A call of parseObject or parseArray: its local variables.  members is
\* history: the (key, value) pairs stored so far, in the order of the stores.
Frame(fn) == [fn |-> fn, obj |-> << >>, arr |-> << >>, key |-> << >>, members |-> << >>]

Top == stack[Len(stack)]

\* What a stretch of parseObject or parseArray ends with: a call of
\* parseValue or a return.
Call(p, f) == [p |-> p, f |-> f, do |-> "call", ret |-> Ret(Nil, NoErr)]
Return(p, f, val, err) == [p |-> p, f |-> f, do |-> "return", ret |-> Ret(val, err)]

\* parseObject after the key: the colon, up to the call of parseValue.
objectColon(p, f) ==
    IF p.cur.Type # TokenColon THEN Return(p, f, NilMap, ErrColon)
    ELSE Call(advance(p), f)

\* parseObject, the head of the loop: the key.
objectMember(p, f) ==
    IF p.cur.Type # TokenString THEN Return(p, f, NilMap, ErrStringKey)
    ELSE objectColon(advance(p), [f EXCEPT !.key = p.cur.Value])

\* parseObject after the opening brace is consumed: the empty object.
objectFirst(p, f) ==
    IF p.cur.Type = TokenRightBrace THEN Return(advance(p), f, VObject(f.obj), NoErr)
    ELSE objectMember(p, f)

\* parseObject from its first line to the first call of parseValue.
objectEnter(p, f) == objectFirst(advance(p), f)

\* The store obj[key] = val of parseObject.
objectStore(f, val) ==
    [f EXCEPT !.obj = MapSet(f.obj, f.key, val),
              !.members = Append(f.members, <<f.key, val>>)]

\* parseObject after the store: the closing brace or the comma.
objectNext(p, f) ==
    IF p.cur.Type = TokenRightBrace THEN Return(advance(p), f, VObject(f.obj), NoErr)
    ELSE IF p.cur.Type # TokenComma THEN Return(p, f, NilMap, ErrCommaBrace)
    ELSE objectMember(advance(p), f)

\* parseObject from the return of parseValue to the next call or the return.
objectResume(p, f, r) ==
    IF r.err # NoErr THEN Return(p, f, NilMap, r.err)
    ELSE objectNext(p, objectStore(f, r.val))

\* A variant of arrayFirst that takes the end of the input for the closing
\* bracket: the variant TruncatedRejected has to tell from it.
arrayFirstAtEnd(p, f) ==
    IF p.cur.Type \in {TokenRightBracket, TokenEOF}
    THEN Return(advance(p), f, VArray(f.arr), NoErr)
    ELSE Call(p, f)

\* parseArray after the opening bracket is consumed: the empty array.
arrayFirst(p, f) ==
    IF p.cur.Type = TokenRightBracket THEN Return(advance(p), f, VArray(f.arr), NoErr)
    ELSE Call(p, f)

\* parseArray from its first line to the first call of parseValue.
arrayEnter(p, f) == arrayFirst(advance(p), f)

\* A variant of arrayNext that lets a closing bracket follow the comma: the
\* variant GrammarConformance has to tell from it.
arrayNextTrailingComma(p, f) ==
    IF p.cur.Type = TokenRightBracket THEN Return(advance(p), f, VArray(f.arr), NoErr)
    ELSE IF p.cur.Type # TokenComma THEN Return(p, f, NilSlice, ErrCommaBracket)
    ELSE arrayFirst(advance(p), f)

\* parseArray after the append: the closing bracket or the comma.
arrayNext(p, f) ==
    IF p.cur.Type = TokenRightBracket THEN Return(advance(p), f, VArray(f.arr), NoErr)
    ELSE IF p.cur.Type # TokenComma THEN Return(p, f, NilSlice, ErrCommaBracket)
    ELSE Call(advance(p), f)

\* parseArray from the return of parseValue to the next call or the return.
arrayResume(p, f, r) ==
    IF r.err # NoErr THEN Return(p, f, NilSlice, r.err)
    ELSE arrayNext(p, [f EXCEPT !.arr = Append(f.arr, r.val)])

\* case TokenNumber of parseValue, c what strconv.ParseFloat gave.
numberValue(p, c) ==
    IF c.err # NoErr THEN [p |-> p, ret |-> Ret(Nil, c.err)]
    ELSE [p |-> advance(p), ret |-> Ret(VNumber(c.val), NoErr)]

\* parseValue on a token that starts no object and no array.
scalarValue(p) ==
    IF p.cur.Type = TokenString THEN [p |-> advance(p), ret |-> Ret(VString(p.cur.Value), NoErr)]
    ELSE IF p.cur.Type = TokenNumber THEN numberValue(p, ParseFloat(p.cur.Value))
    ELSE IF p.cur.Type = TokenTrue THEN [p |-> advance(p), ret |-> Ret(VBool(TRUE), NoErr)]
    ELSE IF p.cur.Type = TokenFalse THEN [p |-> advance(p), ret |-> Ret(VBool(FALSE), NoErr)]
    ELSE IF p.cur.Type = TokenNull THEN [p |-> advance(p), ret |-> Ret(Nil, NoErr)]
    ELSE [p |-> p, ret |-> Ret(Nil, ErrToken)]

\* The effect of a stretch of parseObject or parseArray on the state.
Apply(o) ==
    /\ lexer' = o.p.lex
    /\ curToken' = o.p.cur
    /\ lexLog' = o.p.log
    /\ IF o.do = "call"
       THEN /\ stack' = [stack EXCEPT ![Len(stack)] = o.f]
            /\ pc' = "parseValue"
            /\ UNCHANGED <<ret, returned>>
       ELSE /\ stack' = SubSeq(stack, 1, Len(stack) - 1)
            /\ pc' = "return"
            /\ ret' = o.ret
            /\ returned' = o.f
    /\ UNCHANGED <<doc, input, result, run, first>>

\* The effect of parseValue on a token that starts no object and no array.
ApplyScalar(o) ==
    /\ lexer' = o.p.lex
    /\ curToken' = o.p.cur
    /\ lexLog' = o.p.log
    /\ ret' = o.ret
    /\ pc' = "return"
    /\ UNCHANGED <<doc, input, stack, result, returned, run, first>>

\* NewParser after its call of NextToken, which gave r; with an error Parse
\* returns it.
ApplyFirst(r) ==
    /\ lexer' = r.l
    /\ lexLog' = Append(lexLog, r.err)
    /\ IF r.err # NoErr
       THEN /\ result' = Ret(Nil, r.err)
            /\ pc' = "done"
            /\ curToken' = curToken
       ELSE /\ curToken' = r.tok
            /\ pc' = "parseValue"
            /\ result' = result
    /\ UNCHANGED <<doc, input, stack, ret, returned, run, first>>

(***************************************************************************)
(* Actions                                                                 *)
(***************************************************************************)
\* Parse, NewParser, NewLexer: the lexer is built and the first token read.
NewParser ==
    /\ pc = "Parse"
    /\ ApplyFirst(NextToken(input, NewLexer(input)))

\* parseValue: the switch on the type of the current token.
ParseValue ==
    /\ pc = "parseValue"
    /\ IF curToken.Type \in {TokenLeftBrace, TokenLeftBracket}
       THEN /\ Len(stack) < MaxDepth
            /\ stack' = Append(stack, Frame(IF curToken.Type = TokenLeftBrace
                                            THEN "parseObject" ELSE "parseArray"))
            /\ pc' = "enter"
            /\ UNCHANGED <<doc, input, lexer, curToken, lexLog, ret, result, returned,
                           run, first>>
       ELSE ApplyScalar(scalarValue(Parser))

ParseObjectEnter ==
    /\ pc = "enter"
    /\ Top.fn = "parseObject"
    /\ Apply(objectEnter(Parser, Top))

ParseObjectResume ==
    /\ pc = "return"
    /\ stack # << >>
    /\ Top.fn = "parseObject"
    /\ Apply(objectResume(Parser, Top, ret))

ParseArrayEnter ==
    /\ pc = "enter"
    /\ Top.fn = "parseArray"
    /\ Apply(arrayEnter(Parser, Top))

ParseArrayResume ==
    /\ pc = "return"
    /\ stack # << >>
    /\ Top.fn = "parseArray"
    /\ Apply(arrayResume(Parser, Top, ret))

\* The outermost parseValue returns: Parser.Parse and Parse hand its result on.
ParseReturn ==
    /\ pc = "return"
    /\ stack = << >>
    /\ result' = ret
    /\ pc' = "done"
    /\ UNCHANGED <<doc, input, lexer, curToken, stack, ret, lexLog, returned, run, first>>

Next ==
    \/ NewParser
    \/ ParseValue
    \/ ParseObjectEnter
    \/ ParseObjectResume
    \/ ParseArrayEnter
    \/ ParseArrayResume
    \/ ParseReturn

\* The state in which Parse(text) is called.
Start(text) ==
    /\ input = text
    /\ lexer = [pos |-> 0, ch |-> ChNUL]
    /\ curToken = Token(TokenEOF, << >>, 0)
    /\ stack = << >>
    /\ pc = "Parse"
    /\ ret = Ret(Nil, NoErr)
    /\ result = Ret(Nil, NoErr)
    /\ lexLog = << >>
    /\ returned = Frame("")

(***************************************************************************)
(* Inputs.  The documents Parse is run on are byte strings put together    *)
(* from pieces: token texts for the grammar, members for objects, the      *)
(* parts of a string literal, the characters of a number, and inputs of    *)
(* the repository's tests.                                                 *)
(***************************************************************************)
MaxStructPieces == 4
MaxMembers == 3
MaxStrPieces == 3
MaxNumPieces == 4

\* The concatenations of at most n pieces of P: of n pieces, each a piece of
\* P or nothing.
RECURSIVE Words(_, _)
Words(P, n) ==
    IF n = 0 THEN {<< >>}
    ELSE {w \o p : w \in Words(P, n - 1), p \in P \cup {<< >>}}

\* [ ] { } : , "a" 1 and two texts NextToken rejects: @ (which it does not
\* consume) and x (which it does)
StructPieces ==
    {<<ChLBrack>>, <<ChRBrack>>, <<ChLBrace>>, <<ChRBrace>>, <<ChColon>>, <<ChComma>>,
     <<ChQuote, 97, ChQuote>>, <<49>>, <<64>>, <<120>>}

StructDocs == Words(StructPieces, MaxStructPieces)

\* "a":1  "a":2  "b":1  "b":2  "a":{"b":1,"b":2}  "b":[]
MemberPieces ==
    {<<ChQuote, 97, ChQuote, ChColon, 49>>,
     <<ChQuote, 97, ChQuote, ChColon, 50>>,
     <<ChQuote, 98, ChQuote, ChColon, 49>>,
     <<ChQuote, 98, ChQuote, ChColon, 50>>,
     <<ChQuote, 97, ChQuote, ChColon, ChLBrace, ChQuote, 98, ChQuote, ChColon, 49,
       ChComma, ChQuote, 98, ChQuote, ChColon, 50, ChRBrace>>,
     <<ChQuote, 98, ChQuote, ChColon, ChLBrack, ChRBrack>>}

\* The member lists m1,m2,...,mn with 1 <= n <= k.
RECURSIVE MemberLists(_)
MemberLists(k) ==
    IF k = 1 THEN MemberPieces
    ELSE LET L == MemberLists(k - 1) IN
         L \cup {l \o <<ChComma>> \o m : l \in L, m \in MemberPieces}

ObjectDocs ==
    {<<ChLBrace>> \o l \o <<ChRBrace>> : l \in MemberLists(MaxMembers)}

\* After the opening quote: a " \ / b n u, the byte 0, and
\* \f \r \t \u0041 \ud800 \uDFFF \u+123 \u-123 \u00 \u00g0
StrPieces ==
    {<<97>>, <<ChQuote>>, <<ChBackslash>>, <<ChSlash>>, <<Chb>>, <<Chn>>, <<Chu>>,
     <<ChNUL>>,
     <<ChBackslash, Chf>>, <<ChBackslash, Chr>>, <<ChBackslash, Cht>>,
     <<ChBackslash, Chu, 48, 48, 52, 49>>,
     <<ChBackslash, Chu, 100, 56, 48, 48>>,
     <<ChBackslash, Chu, 68, 70, 70, 70>>,
     <<ChBackslash, Chu, ChPlus, 49, 50, 51>>,
     <<ChBackslash, Chu, ChMinus, 49, 50, 51>>,
     <<ChBackslash, Chu, 48, 48>>,
     <<ChBackslash, Chu, 48, 48, 103, 48>>}

StringDocs == {<<ChQuote>> \o w : w \in Words(StrPieces, MaxStrPieces)}

\* - 0 1 . e E + 99
NumPieces ==
    {<<ChMinus>>, <<Ch0>>, <<49>>, <<ChDot>>, <<Che>>, <<ChUpperE>>, <<ChPlus>>,
     <<Ch9, Ch9>>}

NumberDocs == Words(NumPieces, MaxNumPieces)

\* Inputs of the tests (src/unnamed/part_000) and of main.
SampleDocs == {
    \* TestParseString: "hello\nworld"
    <<34, 104, 101, 108, 108, 111, 92, 110, 119, 111, 114, 108, 100, 34>>,
    \* TestParseString: "\u0048\u0065"
    <<34, 92, 117, 48, 48, 52, 56, 92, 117, 48, 48, 54, 53, 34>>,
    \* TestParseNumber: 1.5e-10
    <<49, 46, 53, 101, 45, 49, 48>>,
    \* TestParseBoolean: true
    <<116, 114, 117, 101>>,
    \* TestParseBoolean: false
    <<102, 97, 108, 115, 101>>,
    \* TestParseNull: null
    <<110, 117, 108, 108>>,
    \* TestParseArray: [1, "two", true, null, false]
    <<91, 49, 44, 32, 34, 116, 119, 111, 34, 44, 32, 116, 114, 117, 101, 44,
      32, 110, 117, 108, 108, 44, 32, 102, 97, 108, 115, 101, 93>>,
    \* TestParseArray: [[1, 2], [3, 4]]
    <<91, 91, 49, 44, 32, 50, 93, 44, 32, 91, 51, 44, 32, 52, 93, 93>>,
    \* TestParseObject: {"active": true, "verified": false}
    <<123, 34, 97, 99, 116, 105, 118, 101, 34, 58, 32, 116, 114, 117, 101,
      44, 32, 34, 118, 101, 114, 105, 102, 105, 101, 100, 34, 58, 32, 102,
      97, 108, 115, 101, 125>>,
    \* TestParseErrors: {"key": }
    <<123, 34, 107, 101, 121, 34, 58, 32, 125>>,
    \* TestParseErrors: {"key" "value"}
    <<123, 34, 107, 101, 121, 34, 32, 34, 118, 97, 108, 117, 101, 34, 125>>,
    \* TestParseErrors: [1 2 3]
    <<91, 49, 32, 50, 32, 51, 93>>,
    \* TestParseErrors: {123: "value"}
    <<123, 49, 50, 51, 58, 32, 34, 118, 97, 108, 117, 101, 34, 125>>,
    \* TestParseErrors: {"key": undefined}
    <<123, 34, 107, 101, 121, 34, 58, 32, 117, 110, 100, 101, 102, 105, 110,
      101, 100, 125>>,
    \* TestParseWhitespace: {\n\t"name": "John"\n}
    <<123, 10, 9, 34, 110, 97, 109, 101, 34, 58, 32, 34, 74, 111, 104, 110,
      34, 10, 125>>,
    \* main: {"user": {"name": "Alice", "scores": [95, 87, 92]}}
    <<123, 34, 117, 115, 101, 114, 34, 58, 32, 123, 34, 110, 97, 109, 101,
      34, 58, 32, 34, 65, 108, 105, 99, 101, 34, 44, 32, 34, 115, 99, 111,
      114, 101, 115, 34, 58, 32, 91, 57, 53, 44, 32, 56, 55, 44, 32, 57, 50,
      93, 125, 125>>}

\* The document is of one of the families.
IsDoc(d) ==
    \/ d \in StructDocs
    \/ d \in ObjectDocs
    \/ d \in StringDocs
    \/ d \in NumberDocs
    \/ d \in SampleDocs

(***************************************************************************)
(* Specification: one call of Parse on a document.                         *)
(***************************************************************************)
Init ==
    /\ IsDoc(doc)
    /\ Start(doc)
    /\ run = 1
    /\ first = [input |-> << >>, result |-> Ret(Nil, NoErr)]

Spec == Init /\ [][Next]_vars

(***************************************************************************)
(* Reference definitions: what the specification means by a token          *)
(* sequence, a well-formed value and its tree, a string literal and its    *)
(* text, and the shape of a number.  None of them is used by an action.    *)
(***************************************************************************)
\* One token of a scan of the whole input: the token and where its text ends.
Scanned(r) ==
    [Type |-> r.tok.Type, Value |-> r.tok.Value, Pos |-> r.tok.Pos, End |-> r.l.pos - 1]

RECURSIVE TokensFrom(_, _, _)
TokensAfter(inp, r, acc) ==
    IF r.err # NoErr THEN [ok |-> FALSE, toks |-> acc]
    ELSE IF r.tok.Type = TokenEOF THEN [ok |-> TRUE, toks |-> acc]
    ELSE TokensFrom(inp, r.l, Append(acc, Scanned(r)))

TokensFrom(inp, l, acc) == TokensAfter(inp, NextToken(inp, l), acc)

\* NextToken called on inp until it gives EndOfInput or an error: ok says
\* that every token lexed without error, toks are the tokens before the end.
Tokens(inp) == TokensFrom(inp, NewLexer(inp), << >>)

\* Every number lexeme of the token sequence converts.
NumbersConvert(t) ==
    \A i \in 1..Len(t) : t[i].Type = TokenNumber => ParseFloat(t[i].Value).err = NoErr

\* The grammar of the specification over the tokens t[i..j]:
\*   value    = string | number | true | false | null
\*            | '{' '}' | '{' members '}' | '[' ']' | '[' elements ']'
\*   elements = value | value ',' elements
\*   members  = string ':' value | string ':' value ',' members
RECURSIVE IsValue(_, _, _)
RECURSIVE IsElements(_, _, _)
RECURSIVE IsMembers(_, _, _)

IsValue(t, i, j) ==
    \/ /\ i = j
       /\ t[i].Type \in {TokenString, TokenNumber, TokenTrue, TokenFalse, TokenNull}
    \/ /\ i < j
       /\ t[i].Type = TokenLeftBracket
       /\ t[j].Type = TokenRightBracket
       /\ (j = i + 1 \/ IsElements(t, i + 1, j - 1))
    \/ /\ i < j
       /\ t[i].Type = TokenLeftBrace
       /\ t[j].Type = TokenRightBrace
       /\ (j = i + 1 \/ IsMembers(t, i + 1, j - 1))

IsElements(t, i, j) ==
    /\ i <= j
    /\ \/ IsValue(t, i, j)
       \/ \E k \in i..(j - 2) :
            IsValue(t, i, k) /\ t[k + 1].Type = TokenComma /\ IsElements(t, k + 2, j)

IsMembers(t, i, j) ==
    /\ i + 2 <= j
    /\ t[i].Type = TokenString
    /\ t[i + 1].Type = TokenColon
    /\ \/ IsValue(t, i + 2, j)
       \/ \E k \in (i + 2)..(j - 2) :
            IsValue(t, i + 2, k) /\ t[k + 1].Type = TokenComma /\ IsMembers(t, k + 2, j)

\* The lengths n for which t[1..n] is a well-formed value: none or one.
ValuePrefixes(t) == {n \in 1..Len(t) : IsValue(t, 1, n)}

\* The object a list of (key, value) members in source order denotes: under
\* each key the value of the last member with that key.
LastIndex(ms, k) == CHOOSE i \in 1..Len(ms) : ms[i][1] = k /\ \A j \in (i + 1)..Len(ms) : ms[j][1] # k
LastWins(ms) == [k \in {ms[i][1] : i \in 1..Len(ms)} |-> ms[LastIndex(ms, k)][2]]

\* The tree of the well-formed value t[i..j].
RECURSIVE TreeOf(_, _, _)
RECURSIVE ElementsOf(_, _, _)
RECURSIVE MembersOf(_, _, _)

TreeOf(t, i, j) ==
    IF t[i].Type = TokenString THEN VString(t[i].Value)
    ELSE IF t[i].Type = TokenNumber THEN VNumber(ParseFloat(t[i].Value).val)
    ELSE IF t[i].Type = TokenTrue THEN VBool(TRUE)
    ELSE IF t[i].Type = TokenFalse THEN VBool(FALSE)
    ELSE IF t[i].Type = TokenNull THEN Nil
    ELSE IF t[i].Type = TokenLeftBracket
    THEN VArray(IF j = i + 1 THEN << >> ELSE ElementsOf(t, i + 1, j - 1))
    ELSE VObject(IF j = i + 1 THEN << >> ELSE LastWins(MembersOf(t, i + 1, j - 1)))

\* Where the first value of the elements (members: after key and colon) ends.
FirstEnd(t, i, j) ==
    IF IsValue(t, i, j) THEN j
    ELSE CHOOSE k \in i..(j - 2) : IsValue(t, i, k) /\ t[k + 1].Type = TokenComma

ElementsOf(t, i, j) ==
    IF FirstEnd(t, i, j) = j THEN <<TreeOf(t, i, j)>>
    ELSE <<TreeOf(t, i, FirstEnd(t, i, j))>> \o ElementsOf(t, FirstEnd(t, i, j) + 2, j)

MembersOf(t, i, j) ==
    IF FirstEnd(t, i + 2, j) = j THEN <<<<t[i].Value, TreeOf(t, i + 2, j)>>>>
    ELSE <<<<t[i].Value, TreeOf(t, i + 2, FirstEnd(t, i + 2, j))>>>>
         \o MembersOf(t, FirstEnd(t, i + 2, j) + 2, j)

\* The hexadecimal digits, by value.
LowerHex == <<48, 49, 50, 51, 52, 53, 54, 55, 56, 57, 97, 98, 99, 100, 101, 102>>
UpperHex == <<48, 49, 50, 51, 52, 53, 54, 55, 56, 57, 65, 66, 67, 68, 69, 70>>
IsHexDigit(c) == \E v \in 1..16 : LowerHex[v] = c \/ UpperHex[v] = c
RefHexVal(c) == (CHOOSE v \in 1..16 : LowerHex[v] = c \/ UpperHex[v] = c) - 1

\* The 16-bit value of the four hexadecimal digits inp[i..i+3].
RefHex4(inp, i) ==
    4096 * RefHexVal(inp[i]) + 256 * RefHexVal(inp[i + 1])
        + 16 * RefHexVal(inp[i + 2]) + RefHexVal(inp[i + 3])

\* The escape table of the specification: the letter and its result.
EscapeTable ==
    (ChQuote :> ChQuote) @@ (ChBackslash :> ChBackslash) @@ (ChSlash :> ChSlash)
    @@ (Chb :> ChBS) @@ (Chf :> ChFF) @@ (Chn :> ChLF) @@ (Chr :> ChCR) @@ (Cht :> ChTab)

\* What became of a string literal: kind is "closed" (at is the index of the
\* closing quote), "end" (the input ended), "escape" (a backslash before a
\* letter without an entry in the table) or "unicode" (a \u not followed by
\* four hexadecimal digits); eoi says that the input ended before a closing
\* quote; text is the text so far and plain the plain characters so far.
Literal(kind, at, eoi, text, plain) ==
    [kind |-> kind, at |-> at, eoi |-> eoi, text |-> text, plain |-> plain]

\* The string literal whose opening quote is before inp[i], read from inp[i].
RECURSIVE RefScan(_, _, _, _)
RefScan(inp, i, text, plain) ==
    IF i > Len(inp) THEN Literal("end", i, TRUE, text, plain)
    ELSE IF inp[i] = ChQuote THEN Literal("closed", i, FALSE, text, plain)
    ELSE IF inp[i] # ChBackslash
    THEN RefScan(inp, i + 1, Append(text, inp[i]), Append(plain, inp[i]))
    ELSE IF i + 1 > Len(inp) THEN Literal("end", i, TRUE, text, plain)
    ELSE IF inp[i + 1] \in DOMAIN EscapeTable
    THEN RefScan(inp, i + 2, Append(text, EscapeTable[inp[i + 1]]), plain)
    ELSE IF inp[i + 1] # Chu THEN Literal("escape", i, FALSE, text, plain)
    ELSE IF i + 5 <= Len(inp) /\ \A k \in (i + 2)..(i + 5) : IsHexDigit(inp[k])
    THEN RefScan(inp, i + 6, Append(text, RefHex4(inp, i + 2)), plain)
    ELSE Literal("unicode", i,
                 i + 5 > Len(inp) /\ \A k \in (i + 2)..Len(inp) : IsHexDigit(inp[k]),
                 text, plain)

\* inp[i..j] is one or more digits.
AllDigits(s, i, j) == i <= j /\ \A k \in i..j : IsDigit(s[k])

\* The shape of a number: an optional '-', one or more digits, optionally
\* '.' and one or more digits, optionally 'e' or 'E', an optional sign and
\* one or more digits.  The integer part is s[i0..a], the fraction ends at b.
ShapeFrom(s, i0) ==
    \E a \in i0..Len(s) :
        /\ AllDigits(s, i0, a)
        /\ \E b \in a..Len(s) :
             /\ b = a \/ (s[a + 1] = ChDot /\ AllDigits(s, a + 2, b))
             /\ \/ b = Len(s)
                \/ /\ s[b + 1] \in {Che, ChUpperE}
                   /\ \/ AllDigits(s, b + 2, Len(s))
                      \/ /\ b + 2 <= Len(s)
                         /\ s[b + 2] \in {ChPlus, ChMinus}
                         /\ AllDigits(s, b + 3, Len(s))

NumberShape(s) == ShapeFrom(s, IF s # << >> /\ s[1] = ChMinus THEN 2 ELSE 1)

\* A number of a well-formed document: the shape, and no leading zero.
StrictNumber(s) ==
    /\ NumberShape(s)
    /\ ~\E i \in 1..(Len(s) - 1) :
          s[i] = Ch0 /\ IsDigit(s[i + 1]) /\ (i = 1 \/ s[i - 1] = ChMinus)

\* A string of a well-formed document, its opening quote at inp[i]: closed,
\* every escape in the table or \u and four hexadecimal digits, no control
\* character.
StrictString(inp, i) ==
    /\ RefScan(inp, i + 1, << >>, << >>).kind = "closed"
    /\ \A k \in 1..Len(RefScan(inp, i + 1, << >>, << >>).plain) :
          RefScan(inp, i + 1, << >>, << >>).plain[k] >= ChSpace

StrictTokens(inp, t) ==
    \A i \in 1..Len(t) :
        /\ t[i].Type = TokenNumber => StrictNumber(t[i].Value)
        /\ t[i].Type = TokenString => StrictString(inp, t[i].Pos + 1)

WellFormedTokens(inp, s) ==
    /\ s.ok
    /\ s.toks # << >>
    /\ StrictTokens(inp, s.toks)
    /\ IsValue(s.toks, 1, Len(s.toks))
    /\ s.toks[Len(s.toks)].End = Len(inp)
    /\ s.toks[1].Type \in {TokenLeftBrace, TokenLeftBracket, TokenString}

\* A well-formed JSON document whose top-level value is an object, an array
\* or a string, with nothing after that value.
WellFormedDocument(inp) == WellFormedTokens(inp, Tokens(inp))

(***************************************************************************)
(* Specification: Parse on every proper prefix of a well-formed document.  *)
(***************************************************************************)
\* The well-formed documents of the families that hold objects, arrays and
\* strings.
TruncDocs ==
    {d \in StructDocs : WellFormedDocument(d)}
        \cup {d \in ObjectDocs : WellFormedDocument(d)}
        \cup {d \in StringDocs : WellFormedDocument(d)}
        \cup {d \in SampleDocs : WellFormedDocument(d)}

InitTrunc ==
    /\ doc \in TruncDocs
    /\ \E n \in 0..(Len(doc) - 1) : Start(SubSeq(doc, 1, n))
    /\ run = 1
    /\ first = [input |-> << >>, result |-> Ret(Nil, NoErr)]

SpecTrunc == InitTrunc /\ [][Next]_vars

(***************************************************************************)
(* Specification: Parse on a document, then on the document with a run of  *)
(* whitespace inserted between two of its tokens.                          *)
(***************************************************************************)
MaxWSPieces == 4
MaxWSRun == 1

\* [ ] , 1 x and the literal "\u12"
WSPieces ==
    {<<ChLBrack>>, <<ChRBrack>>, <<ChComma>>, <<49>>, <<120>>,
     <<ChQuote, ChBackslash, Chu, 49, 50, ChQuote>>}

WSDocs == Words(WSPieces, MaxWSPieces) \cup SampleDocs

WSRuns == Words({<<ChSpace>>, <<ChTab>>, <<ChLF>>, <<ChCR>>}, MaxWSRun) \ {<< >>}

\* A gap is a place between two bytes of d: gap g is after d[g], gap 0 before
\* d[1].  The gaps inside a string literal, from its opening quote to the
\* first quote that no backslash precedes, read from d[i]; inside says that
\* a literal is open at d[i].
RECURSIVE LiteralGaps(_, _, _)
LiteralGaps(d, i, inside) ==
    IF i > Len(d) THEN (IF inside THEN {Len(d)} ELSE {})
    ELSE IF ~inside THEN LiteralGaps(d, i + 1, d[i] = ChQuote)
    ELSE IF d[i] = ChQuote THEN {i - 1} \cup LiteralGaps(d, i + 1, FALSE)
    ELSE IF d[i] = ChBackslash THEN {i - 1, i} \cup LiteralGaps(d, i + 2, TRUE)
    ELSE {i - 1} \cup LiteralGaps(d, i + 1, TRUE)

\* A character of a number or of a keyword.
WordChar(c) == IsDigit(c) \/ IsLetter(c) \/ c \in {ChMinus, ChPlus, ChDot}

\* The gaps inside a number or a keyword.
WordGaps(d) == {g \in 1..(Len(d) - 1) : WordChar(d[g]) /\ WordChar(d[g + 1])}

\* Where whitespace may be inserted: before the first token, after the last
\* and between two tokens, never inside a string, a number or a keyword.
InsertionPoints(d) == (0..Len(d)) \ (LiteralGaps(d, 1, FALSE) \cup WordGaps(d))

Insert(d, g, w) == SubSeq(d, 1, g) \o w \o SubSeq(d, g + 1, Len(d))

\* The caller keeps what the first call gave and calls Parse on a variant.
ParseAgain ==
    /\ pc = "done"
    /\ run = 1
    /\ \E g \in InsertionPoints(doc), w \in WSRuns : input' = Insert(doc, g, w)
    /\ first' = [input |-> input, result |-> result]
    /\ run' = 2
    /\ lexer' = [pos |-> 0, ch |-> ChNUL]
    /\ curToken' = Token(TokenEOF, << >>, 0)
    /\ stack' = << >>
    /\ pc' = "Parse"
    /\ ret' = Ret(Nil, NoErr)
    /\ result' = Ret(Nil, NoErr)
    /\ lexLog' = << >>
    /\ returned' = Frame("")
    /\ doc' = doc

NextWS == Next \/ ParseAgain

InitWS ==
    /\ doc \in WSDocs
    /\ Start(doc)
    /\ run = 1
    /\ first = [input |-> << >>, result |-> Ret(Nil, NoErr)]

SpecWS == InitWS /\ [][NextWS]_vars

(***************************************************************************)
(* Specification: NextToken called on a lexer again and again, whatever    *)
(* the calls before returned.                                              *)
(***************************************************************************)
MaxCalls == 6

\* The slice readNumber or readIdentifier takes in the switch of NextToken,
\* l the lexer after skipWhitespace: its bounds, or none.
sliceAt(inp, l) ==
    IF l.ch = ChMinus \/ IsDigit(l.ch)
    THEN {[from |-> readNumber(inp, l).from, to |-> readNumber(inp, l).to]}
    ELSE IF IsLetter(l.ch)
    THEN {[from |-> readIdentifier(inp, l).from, to |-> readIdentifier(inp, l).to]}
    ELSE {}

\* The slices a call of NextToken on the lexer l takes.
slices(inp, l) == sliceAt(inp, skipWhitespace(inp, l))

\* The effect of a NextToken call that gave r.  A call that leaves the lexer
\* as it was would be repeated by every later call, so none is made.
ApplyNextToken(r) ==
    /\ lexer' = r.l
    /\ curToken' = r.tok
    /\ lexLog' = Append(lexLog, r.err)
    /\ pc' = IF r.l = lexer THEN "same" ELSE "NextToken"
    /\ UNCHANGED <<doc, input, stack, ret, result, returned, run, first>>

CallNextToken ==
    /\ pc = "NextToken"
    /\ Len(lexLog) < MaxCalls
    /\ ApplyNextToken(NextToken(input, lexer))

\* The state NewLexer(text) leaves.
InitLex ==
    /\ IsDoc(doc)
    /\ input = doc
    /\ lexer = NewLexer(doc)
    /\ curToken = Token(TokenEOF, << >>, 0)
    /\ stack = << >>
    /\ pc = "NextToken"
    /\ ret = Ret(Nil, NoErr)
    /\ result = Ret(Nil, NoErr)
    /\ lexLog = << >>
    /\ returned = Frame("")
    /\ run = 1
    /\ first = [input |-> << >>, result |-> Ret(Nil, NoErr)]

SpecLex == InitLex /\ [][CallNextToken]_vars

(***************************************************************************)
(* The claims.                                                             *)
(***************************************************************************)
\* The NextToken calls so far that returned an error.
LexErrors == {i \in 1..Len(lexLog) : lexLog[i] # NoErr}

\* C1: parsing is all-or-nothing.  If any NextToken call made during Parse
\* (the one of NewParser or a later one of advance) returns an error, then
\* no NextToken call follows it and Parse returns an error.
AllOrNothing ==
    /\ \A i \in LexErrors : i = Len(lexLog)
    /\ (pc = "done" /\ LexErrors # {}) => result.err # NoErr

\* The number of '{' and '[' characters of inp.
Opens(inp) == Cardinality({i \in 1..Len(inp) : inp[i] \in {ChLBrace, ChLBrack}})

\* C2: Parse runs to completion, and the nesting depth of the parseObject and
\* parseArray calls in progress never exceeds the number of '{' and '['
\* characters of the input (the bound the completion rests on).
NestingBounded == Len(stack) <= Opens(input)

\* The claim of C3 for the tokens t of the input and the result r of Parse.
Conforms(t, r) ==
    /\ r.err = NoErr <=> ValuePrefixes(t) # {}
    /\ r.err = NoErr => \A n \in ValuePrefixes(t) : r.val = TreeOf(t, 1, n)

LastWriteWins ==
    (pc = "return" /\ ret.err = NoErr /\ ret.val.t = VObject(<< >>).t)
        => /\ ret.val.o = LastWins(returned.members)
           /\ DOMAIN ret.val.o = {returned.members[i][1] : i \in 1..Len(returned.members)}

\* C4 happens: an object is returned two of whose members had the same key
\* and different values.
LastWriteWinsWitness ==
    /\ pc = "return"
    /\ ret.err = NoErr
    /\ ret.val.t = VObject(<< >>).t
    /\ \E i, j \in 1..Len(returned.members) :
          /\ i < j
          /\ returned.members[i][1] = returned.members[j][1]
          /\ returned.members[i][2] # returned.members[j][2]

\* The state NewParser leaves: one NextToken call made, on an input that
\* opens a string literal.
FirstLiteralRead == Len(lexLog) = 1 /\ input # << >> /\ input[1] = ChQuote

\* The literal the input opens, by the reference.
FirstLiteral == RefScan(input, 2, << >>, << >>)

\* C5: escape fidelity.  For a string literal of ASCII characters other than
\* '"' and '\' and of the escapes of the table and \uXXXX, the text of the
\* string token is the characters and the results of the escapes in order,
\* \uXXXX giving the character with the code XXXX, and the cursor is left
\* just after the first unescaped '"'.
EscapeFidelity ==
    (/\ FirstLiteralRead
     /\ FirstLiteral.kind = "closed"
     /\ \A k \in 1..Len(FirstLiteral.plain) : FirstLiteral.plain[k] < 128)
        => /\ lexLog[1] = NoErr
           /\ curToken.Type = TokenString
           /\ curToken.Value = FirstLiteral.text
           /\ lexer.pos = FirstLiteral.at + 1

\* The errors the specification calls InvalidEscape.
InvalidEscape == {ErrEscape, ErrUnicodeEscape}

\* C6: inside a string literal a \u that is not followed by four hexadecimal
\* digits makes NextToken fail with InvalidEscape, and no string token is
\* produced.  Stated of the first such \u of a literal that the scanner
\* reads up to: no byte 0, which it takes for the end, comes before it.
UnicodeEscapeChecked ==
    (/\ FirstLiteralRead
     /\ FirstLiteral.kind = "unicode"
     /\ \A k \in 1..Len(FirstLiteral.plain) : FirstLiteral.plain[k] # ChNUL)
        => lexLog[1] \in InvalidEscape /\ curToken.Type # TokenString

\* C7: when the input ends inside a string literal before an unescaped
\* closing '"' (right after a backslash and inside a \u escape included),
\* NextToken fails with UnterminatedString; and UnterminatedString is
\* reported only when the end of the input was reached.
UnterminatedAtEnd ==
    FirstLiteralRead
        => /\ FirstLiteral.eoi => lexLog[1] = ErrUnterminated
           /\ lexLog[1] = ErrUnterminated => lexer.pos > Len(input)

\* The token NewParser reads.
FirstToken == NextToken(input, NewLexer(input)).tok

\* The errors the specification calls MalformedNumber.
MalformedNumber == {ErrFloatSyntax, ErrFloatRange}

\* C8: parseValue turns a number token into a Number only when its lexeme
\* has the shape of a number; every other lexeme makes it fail with
\* MalformedNumber.  Stated of the value at the top level.
NumberShapeChecked ==
    (pc = "return" /\ stack = << >> /\ FirstToken.Type = TokenNumber)
        => /\ ret.err = NoErr => NumberShape(FirstToken.Value)
           /\ ~NumberShape(FirstToken.Value) => ret.err \in MalformedNumber

\* Two results of Parse are the same outcome: both errors, or equal values.
SameOutcome(a, b) ==
    IF a.err # NoErr THEN b.err # NoErr ELSE b.err = NoErr /\ b.val = a.val

\* C9: whitespace insensitivity.  A run of space, tab, newline or carriage
\* return inserted before the first token, after the last or between two
\* tokens does not change the outcome of Parse.
WhitespaceInsensitive ==
    (run = 2 /\ pc = "done") => SameOutcome(first.result, result)

\* C10: truncated documents are rejected.  On every proper prefix of a
\* well-formed document whose top-level value is an object, an array or a
\* string, Parse returns an error; the recursion stays below MaxDepth, so no
\* run is left out.
TruncatedRejected ==
    /\ Len(input) < Len(doc)
    /\ ~(pc = "parseValue" /\ Len(stack) >= MaxDepth)
    /\ pc = "done" => result.err # NoErr

\* C10 happens: Parse has returned on a prefix cut inside a string of a
\* container, after the error of the string was dropped.
TruncatedRejectedWitness ==
    /\ pc = "done"
    /\ Len(lexLog) > 2
    /\ \E i \in 1..Len(lexLog) : lexLog[i] \in {ErrUnterminated, ErrUnicodeEscape, ErrEscape}
    /\ Len(input) < Len(doc)

\* The byte under the cursor of a lexer whose pos is p: the byte input[p-1]
\* of the buffer, or the end marker when p-1 is not an index of it.
ByteUnder(inp, p) == IF p >= 1 /\ p <= Len(inp) THEN inp[p] ELSE ChNUL

\* C11: memory safety of the cursor.  In every NextToken call, also after
\* calls that returned an error, the slice input[start : pos-1] readNumber
\* or readIdentifier takes has 0 <= start <= pos-1 <= len(input), the byte
\* readChar leaves as the current one is the byte of the buffer before the
\* cursor or the end marker, and the cursor does not decrease.
CursorSafe ==
    [][/\ \A s \in slices(input, lexer) :
             0 <= s.from /\ s.from <= s.to /\ s.to <= Len(input)
       /\ lexer'.pos >= lexer.pos
       /\ lexer.pos >= 1
       /\ lexer'.ch = ByteUnder(input, lexer'.pos)]_vars

\* C11 happens: after a call that returned an error, a later call has taken
\* the slice of a number that ends with the input.
CursorSafeWitness ==
    /\ pc = "NextToken"
    /\ Len(lexLog) >= 2
    /\ lexLog[1] # NoErr
    /\ lexLog[Len(lexLog)] = NoErr
    /\ curToken.Type = TokenNumber
    /\ lexer.pos = Len(input) + 1

====
